---- MODULE Spec2Model ----
(***************************************************************************)
(* Model of code/scraper.py: the Reddit scraper's main() run, the merge    *)
(* of fetched posts into ../data/subreddit_data.csv (write_data) and the   *)
(* run log ../data/transaction_log.txt (update_transaction_log).           *)
(*                                                                         *)
(* A post is a row <<title, ID, subreddit>>.  A DataFrame is the sequence  *)
(* of its rows; a cell of a DataFrame is a string or NaN.  A CSV file is   *)
(* the sequence of its text rows.  pandas' to_csv / read_csv are modelled  *)
(* by what they do to a cell: NaN is written as the empty field, and a     *)
(* field whose text is one of pandas' default NA markers is read as NaN.   *)
(* Titles made only of digits (re-typed by read_csv's dtype inference)     *)
(* are outside the post domain used here.                                  *)
(***************************************************************************)
EXTENDS Integers, Sequences, FiniteSets, TLC

VARIABLES
    pc,                \* position of main(): idle/creds/token/verify/prompt/fetch/write/log/done/crashed
    credsFile,         \* ../data/reddit_credentials.json exists
    files,             \* ../data/<name> for every dataset file name
    logFile,           \* ../data/transaction_log.txt
    subreddit,         \* main: subreddit
    after,             \* main: params['after']
    last,              \* main: last (cursor returned by the latest scrape_page call)
    batches,           \* main: batches
    i,                 \* main: completed iterations of the for loop
    new_batch_titles,  \* main: new_batch_titles
    batch_size,        \* main: batch_size
    total_size,        \* main: total_size
    me_status,         \* main: status code of the identity check (0: not made yet)
    printed,           \* messages printed during the current run
    runs,              \* number of runs of main() started
    outcome,           \* how the current run ended ("" while it is running)
    scrapeCalls,       \* scrape_page calls made in the current run
    dataWrites,        \* to_csv calls completed in the current run
    logWrites,         \* log entries written in the current run
    files0,            \* the dataset files when the current run started
    logFile0,          \* the log file when the current run started
    call,              \* the latest call of write_data / update_transaction_log
    ncalls             \* number of direct calls made (unit specification)

vars == <<pc, credsFile, files, logFile, subreddit, after, last, batches, i,
          new_batch_titles, batch_size, total_size, me_status, printed, runs, outcome,
          scrapeCalls, dataWrites, logWrites, files0, logFile0, call, ncalls>>

-----------------------------------------------------------------------------
(* Program constants *)
BATCH_SIZE == 100
NUM_BATCHES == 10

(* Bounds of the model *)
MaxRuns == 1            \* runs of main() in one behaviour
MaxNonEmptyPages == 1   \* pages with posts returned by the API in one run
MaxCalls == 3           \* direct calls of a function in one behaviour
MaxBatch == 2           \* rows of the DataFrame passed to a direct write_data call
MaxCount == 1           \* largest count passed to a direct update_transaction_log call

(* None: Python's None / JSON null.  NaN: the float nan of a DataFrame cell. *)
None == "<None>"
NaN == "<nan>"

DefaultFile == "subreddit_data.csv"
FileNames == {DefaultFile, "backup.csv"}

P1 == <<"Hello world", "t3_a1", "learnpython">>
P2 == <<"N/A", "t3_b2", "learnpython">>
P3 == <<"Weekly thread", "t3_c3", "learnpython">>
Posts == {P1, P2, P3}

(* What the listing endpoint may answer: a page of posts and an 'after' cursor. *)
Pages == {<<>>, <<P1>>, <<P2>>, <<P1, P2, P3>>}
Cursors == {None, "t3_c3"}
Subreddits == {"learnpython"}
StatusCodes == {200, 401, 403}

-----------------------------------------------------------------------------
(* pandas *)

\* read_csv's default na_values (keep_default_na = True)
NaValues == {"", "#N/A", "#N/A N/A", "#NA", "-1.#IND", "-1.#QNAN", "-NaN", "-nan",
             "1.#IND", "1.#QNAN", "<NA>", "N/A", "NA", "NULL", "NaN", "None",
             "n/a", "nan", "null"}

ReadCsvCell(t) == IF t \in NaValues THEN NaN ELSE t

ToCsvCell(v) == IF v = NaN THEN "" ELSE v

AbsentFile == [exists |-> FALSE, header |-> FALSE, rows |-> <<>>]

\* DataFrame.to_csv(path, index = False): a frame without rows here is
\* pd.DataFrame() (no columns), written as a single empty line.
ToCsv(frame) ==
    [exists |-> TRUE, header |-> frame # <<>>,
     rows |-> [r \in 1..Len(frame) |-> [c \in 1..Len(frame[r]) |-> ToCsvCell(frame[r][c])]]]

\* pd.read_csv(path) raises EmptyDataError on a file with no header line.
ReadCsvRaises(file) == file.exists /\ ~file.header

ReadCsv(file) ==
    [r \in 1..Len(file.rows) |-> [c \in 1..Len(file.rows[r]) |-> ReadCsvCell(file.rows[r][c])]]

RECURSIVE DropDuplicates(_)
\* DataFrame.drop_duplicates(keep = 'first'): full-row equality, NaN equal to NaN
DropDuplicates(frame) ==
    IF frame = <<>> THEN <<>>
    ELSE LET front == DropDuplicates(SubSeq(frame, 1, Len(frame) - 1))
             r == frame[Len(frame)]
         IN IF \E k \in 1..Len(front) : front[k] = r THEN front ELSE Append(front, r)

RECURSIVE Concat(_)
\* pd.concat(frames): the rows of the frames in list order
Concat(frames) ==
    IF frames = <<>> THEN <<>> ELSE Head(frames) \o Concat(Tail(frames))

-----------------------------------------------------------------------------
(* write_data(new_batch_titles, file_name) on the dataset files fs *)

\* faulty variant: counts the rows that are new to the stored dataset
WriteDataReturnNewRows(stored, incoming, updated) ==
    <<Len(updated) - Len(stored), Len(updated)>>

WriteDataReturn(stored, incoming, updated) ==
    <<Len(updated) - Len(incoming), Len(updated)>>

write_data(fs, incoming, file_name) ==
    IF ReadCsvRaises(fs[DefaultFile])
    THEN [raised |-> TRUE, files |-> fs, ret |-> <<0, 0>>,
          read_from |-> DefaultFile, written_to |-> None]
    ELSE LET stored == IF fs[DefaultFile].exists THEN ReadCsv(fs[DefaultFile]) ELSE <<>>
             updated == DropDuplicates(stored \o incoming)
         IN [raised |-> FALSE,
             files |-> [fs EXCEPT ![file_name] = ToCsv(updated)],
             ret |-> WriteDataReturn(stored, incoming, updated),
             read_from |-> DefaultFile,
             written_to |-> file_name]

(* update_transaction_log(batch_size, total_size) on the log file lf *)

HeaderTitle == [kind |-> "Log of Script Executions", retrieved |-> 0, total |-> 0]
HeaderRule == [kind |-> "==================================================", retrieved |-> 0, total |-> 0]
Entry(b, t) == [kind |-> "Execution Date", retrieved |-> b, total |-> t]

AbsentLog == [exists |-> FALSE, lines |-> <<>>]

\* faulty variant: opens the log with 'w' whether or not it exists
update_transaction_log_truncating(lf, b, t) ==
    [exists |-> TRUE, lines |-> <<HeaderTitle, HeaderRule, Entry(b, t)>>]

update_transaction_log(lf, b, t) ==
    IF lf.exists
    THEN [exists |-> TRUE, lines |-> Append(lf.lines, Entry(b, t))]
    ELSE [exists |-> TRUE, lines |-> <<HeaderTitle, HeaderRule, Entry(b, t)>>]

NoCall == [op |-> "none", incoming |-> <<>>, file_name |-> DefaultFile,
           before |-> [f \in FileNames |-> AbsentFile], logBefore |-> AbsentLog,
           raised |-> FALSE, ret |-> <<0, 0>>, read_from |-> None, written_to |-> None]

-----------------------------------------------------------------------------
(* The data directory before the first run of a behaviour: never used, or as
   left by an earlier run: one that fetched the page <<P1, P2, P3>> once, or
   one whose pages were all empty. *)
FreshDisk ==
    [credsFile |-> FALSE, files |-> [f \in FileNames |-> AbsentFile], logFile |-> AbsentLog]

UsedDisk ==
    [credsFile |-> TRUE,
     files |-> write_data(FreshDisk.files, <<P1, P2, P3>>, DefaultFile).files,
     logFile |-> update_transaction_log(AbsentLog, 0, 3)]

EmptyRunDisk ==
    [credsFile |-> TRUE,
     files |-> write_data(FreshDisk.files, <<>>, DefaultFile).files,
     logFile |-> update_transaction_log(AbsentLog, 0, 0)]

Init ==
    /\ pc = "idle"
    /\ \E d \in {FreshDisk, UsedDisk, EmptyRunDisk} :
          /\ credsFile = d.credsFile
          /\ files = d.files
          /\ logFile = d.logFile
    /\ subreddit = None
    /\ after = None
    /\ last = None
    /\ batches = <<>>
    /\ i = 0
    /\ new_batch_titles = <<>>
    /\ batch_size = 0
    /\ total_size = 0
    /\ me_status = 0
    /\ printed = <<>>
    /\ runs = 0
    /\ outcome = ""
    /\ scrapeCalls = 0
    /\ dataWrites = 0
    /\ logWrites = 0
    /\ files0 = files
    /\ logFile0 = logFile
    /\ call = [NoCall EXCEPT !.before = files, !.logBefore = logFile]
    /\ ncalls = 0

disk == <<credsFile, files, logFile>>
loop == <<subreddit, after, last, batches, i, new_batch_titles, batch_size, total_size>>
locals == <<loop, me_status>>
runHist == <<runs, files0, logFile0>>
counters == <<scrapeCalls, dataWrites, logWrites>>

\* python scraper.py: main() is entered
StartRun ==
    /\ pc \in {"idle", "done", "crashed"}
    /\ runs < MaxRuns
    /\ pc' = "creds"
    /\ runs' = runs + 1
    /\ files0' = files
    /\ logFile0' = logFile
    /\ subreddit' = None
    /\ after' = None
    /\ last' = None
    /\ batches' = <<>>
    /\ i' = 0
    /\ new_batch_titles' = <<>>
    /\ batch_size' = 0
    /\ total_size' = 0
    /\ me_status' = 0
    /\ printed' = <<>>
    /\ outcome' = ""
    /\ scrapeCalls' = 0
    /\ dataWrites' = 0
    /\ logWrites' = 0
    /\ UNCHANGED <<disk, call, ncalls>>

\* get_credentials(): load the file, or prompt and create it
GetCredentials ==
    /\ pc = "creds"
    /\ \/ credsFile /\ UNCHANGED credsFile
       \/ ~credsFile /\ credsFile' = TRUE
    /\ pc' = "token"
    /\ UNCHANGED <<files, logFile, locals, printed, runHist, outcome, counters, call, ncalls>>

Crash(why) ==
    /\ pc' = "crashed"
    /\ outcome' = why

\* requests.post(access_token) and res.json()['access_token']
TokenExchange ==
    /\ pc = "token"
    /\ pc' = "verify"
    /\ UNCHANGED <<disk, locals, printed, runHist, outcome, counters, call, ncalls>>

TokenExchangeRaises ==
    /\ pc = "token"
    /\ Crash("token exchange failed")
    /\ UNCHANGED <<disk, locals, printed, runHist, counters, call, ncalls>>

\* faulty variant: only 401 is taken as a refusal
VerifyIdentityOnly401(status) ==
    /\ pc = "verify"
    /\ me_status' = status
    /\ IF status # 401
       THEN /\ pc' = "prompt"
            /\ UNCHANGED <<printed, outcome>>
       ELSE /\ pc' = "done"
            /\ printed' = Append(printed, "Sorry, authorization not valid.")
            /\ outcome' = "unauthorized"
    /\ UNCHANGED <<disk, loop, runHist, counters, call, ncalls>>

\* requests.get(api/v1/me).status_code == 200, else print and return
VerifyIdentity(status) ==
    /\ pc = "verify"
    /\ me_status' = status
    /\ IF status = 200
       THEN /\ pc' = "prompt"
            /\ UNCHANGED <<printed, outcome>>
       ELSE /\ pc' = "done"
            /\ printed' = Append(printed, "Sorry, authorization not valid.")
            /\ outcome' = "unauthorized"
    /\ UNCHANGED <<disk, loop, runHist, counters, call, ncalls>>

VerifyIdentityRaises ==
    /\ pc = "verify"
    /\ Crash("identity check failed")
    /\ UNCHANGED <<disk, locals, printed, runHist, counters, call, ncalls>>

\* subreddit = input(...); params = {limit, after: None}; batches = []
Prompt(s) ==
    /\ pc = "prompt"
    /\ subreddit' = s
    /\ after' = None
    /\ batches' = <<>>
    /\ i' = 0
    /\ pc' = "fetch"
    /\ UNCHANGED <<disk, last, new_batch_titles, batch_size, total_size, me_status, printed,
                   runHist, outcome, counters, call, ncalls>>

NonEmptyPages(bs) == Cardinality({k \in 1..Len(bs) : bs[k] # <<>>})

\* faulty variant: params['after'] is not updated with the returned cursor
FetchIterationStaleCursor(page, cursor) ==
    /\ pc = "fetch"
    /\ i < NUM_BATCHES
    /\ Len(page) <= BATCH_SIZE
    /\ page # <<>> => NonEmptyPages(batches) < MaxNonEmptyPages
    /\ scrapeCalls' = scrapeCalls + 1
    /\ last' = cursor
    /\ batches' = Append(batches, page)
    /\ i' = i + 1
    /\ UNCHANGED <<pc, disk, subreddit, after, new_batch_titles, batch_size, total_size,
                   me_status, printed, runHist, outcome, dataWrites, logWrites, call, ncalls>>

\* faulty variant: the dataset is saved after every page
FetchIterationSaving(page, cursor) ==
    /\ pc = "fetch"
    /\ i < NUM_BATCHES
    /\ Len(page) <= BATCH_SIZE
    /\ page # <<>> => NonEmptyPages(batches) < MaxNonEmptyPages
    /\ scrapeCalls' = scrapeCalls + 1
    /\ last' = cursor
    /\ batches' = Append(batches, page)
    /\ after' = cursor
    /\ i' = i + 1
    /\ files' = IF write_data(files, page, DefaultFile).raised THEN files
                ELSE write_data(files, page, DefaultFile).files
    /\ dataWrites' = dataWrites + 1
    /\ UNCHANGED <<pc, credsFile, logFile, subreddit, new_batch_titles, batch_size,
                   total_size, me_status, printed, runHist, outcome, logWrites, call, ncalls>>

\* one iteration of the for loop: scrape_page returns (page, cursor)
FetchIteration(page, cursor) ==
    /\ pc = "fetch"
    /\ i < NUM_BATCHES
    /\ Len(page) <= BATCH_SIZE
    /\ page # <<>> => NonEmptyPages(batches) < MaxNonEmptyPages
    /\ scrapeCalls' = scrapeCalls + 1
    /\ last' = cursor
    /\ batches' = Append(batches, page)
    /\ after' = cursor
    /\ i' = i + 1
    /\ UNCHANGED <<pc, disk, subreddit, new_batch_titles, batch_size, total_size,
                   me_status, printed, runHist, outcome, dataWrites, logWrites, call, ncalls>>

\* faulty variant: the pages fetched so far are saved when a fetch fails
ScrapePageRaisesSavingPartial ==
    /\ pc = "fetch"
    /\ i < NUM_BATCHES
    /\ scrapeCalls' = scrapeCalls + 1
    /\ Crash("scrape_page failed")
    /\ files' = IF write_data(files, Concat(batches), DefaultFile).raised THEN files
                ELSE write_data(files, Concat(batches), DefaultFile).files
    /\ UNCHANGED <<credsFile, logFile, locals, printed, runHist, dataWrites, logWrites,
                   call, ncalls>>

\* scrape_page raises: transport error, res.json() or a missing key
ScrapePageRaises ==
    /\ pc = "fetch"
    /\ i < NUM_BATCHES
    /\ scrapeCalls' = scrapeCalls + 1
    /\ Crash("scrape_page failed")
    /\ UNCHANGED <<disk, locals, printed, runHist, dataWrites, logWrites, call, ncalls>>

\* the loop is over: new_batch_titles = pd.concat(batches, ignore_index = True)
ConcatBatches ==
    /\ pc = "fetch"
    /\ i = NUM_BATCHES
    /\ new_batch_titles' = Concat(batches)
    /\ pc' = "write"
    /\ UNCHANGED <<disk, subreddit, after, last, batches, i, batch_size, total_size,
                   me_status, printed, runHist, outcome, counters, call, ncalls>>

CallRecord(op, res, incoming, file_name) ==
    [op |-> op, incoming |-> incoming, file_name |-> file_name,
     before |-> files, logBefore |-> logFile,
     raised |-> res.raised, ret |-> res.ret,
     read_from |-> res.read_from, written_to |-> res.written_to]

\* batch_size, total_size = write_data(new_batch_titles)
WriteDataStep ==
    /\ pc = "write"
    /\ LET res == write_data(files, new_batch_titles, DefaultFile)
       IN /\ call' = CallRecord("write_data", res, new_batch_titles, DefaultFile)
          /\ files' = res.files
          /\ IF res.raised
             THEN /\ Crash("write_data failed")
                  /\ UNCHANGED <<batch_size, total_size, printed, dataWrites>>
             ELSE /\ pc' = "log"
                  /\ batch_size' = res.ret[1]
                  /\ total_size' = res.ret[2]
                  /\ printed' = Append(printed, "Database Updated!")
                  /\ dataWrites' = dataWrites + 1
                  /\ UNCHANGED outcome
    /\ UNCHANGED <<credsFile, logFile, subreddit, after, last, batches, i,
                   new_batch_titles, me_status, runHist, scrapeCalls, logWrites, ncalls>>

LogCallRecord(b, t) ==
    [op |-> "update_transaction_log", incoming |-> <<>>, file_name |-> DefaultFile,
     before |-> files, logBefore |-> logFile, raised |-> FALSE, ret |-> <<b, t>>,
     read_from |-> None, written_to |-> None]

\* update_transaction_log(batch_size, total_size)
UpdateLogStep ==
    /\ pc = "log"
    /\ logFile' = update_transaction_log(logFile, batch_size, total_size)
    /\ call' = LogCallRecord(batch_size, total_size)
    /\ printed' = Append(printed, IF logFile.exists THEN "Transaction log updated."
                                  ELSE "Transaction log created.")
    /\ logWrites' = logWrites + 1
    /\ pc' = "done"
    /\ outcome' = "logged"
    /\ UNCHANGED <<credsFile, files, locals, runHist, scrapeCalls, dataWrites, ncalls>>

\* the process dies, or open() raises, after write_data returned
UpdateLogRaises ==
    /\ pc = "log"
    /\ Crash("log not written")
    /\ UNCHANGED <<disk, locals, printed, runHist, counters, call, ncalls>>

Next ==
    \/ StartRun
    \/ GetCredentials
    \/ TokenExchange
    \/ TokenExchangeRaises
    \/ \E status \in StatusCodes : VerifyIdentity(status)
    \/ VerifyIdentityRaises
    \/ \E s \in Subreddits : Prompt(s)
    \/ \E page \in Pages, cursor \in Cursors : FetchIteration(page, cursor)
    \/ ScrapePageRaises
    \/ ConcatBatches
    \/ WriteDataStep
    \/ UpdateLogStep
    \/ UpdateLogRaises

Spec == Init /\ [][Next]_vars

-----------------------------------------------------------------------------
(* The functions called directly, as a test or another script would. *)

main_state == <<pc, credsFile, locals, printed, runHist, outcome, counters>>

RECURSIVE SeqsUpTo(_, _)
SeqsUpTo(S, n) ==
    IF n = 0 THEN {<<>>}
    ELSE LET shorter == SeqsUpTo(S, n - 1)
         IN shorter \cup {Append(q, x) : q \in shorter, x \in S}

\* write_data(incoming, file_name)
CallWriteData(incoming, file_name) ==
    /\ ncalls < MaxCalls
    /\ ncalls' = ncalls + 1
    /\ LET res == write_data(files, incoming, file_name)
       IN /\ call' = CallRecord("write_data", res, incoming, file_name)
          /\ files' = res.files
    /\ UNCHANGED <<main_state, logFile>>

\* write_data(pd.read_csv('../data/subreddit_data.csv')): the dataset merged with itself
CallMergeSelf ==
    /\ ncalls < MaxCalls
    /\ files[DefaultFile].exists
    /\ ~ReadCsvRaises(files[DefaultFile])
    /\ ncalls' = ncalls + 1
    /\ LET incoming == ReadCsv(files[DefaultFile])
           res == write_data(files, incoming, DefaultFile)
       IN /\ call' = CallRecord("merge_self", res, incoming, DefaultFile)
          /\ files' = res.files
    /\ UNCHANGED <<main_state, logFile>>

NextWrite ==
    \/ \E incoming \in SeqsUpTo(Posts, MaxBatch), file_name \in FileNames :
          CallWriteData(incoming, file_name)
    \/ CallMergeSelf

SpecWrite == Init /\ [][NextWrite]_vars

\* update_transaction_log(b, t)
CallUpdateLog(b, t) ==
    /\ ncalls < MaxCalls
    /\ ncalls' = ncalls + 1
    /\ logFile' = update_transaction_log(logFile, b, t)
    /\ call' = LogCallRecord(b, t)
    /\ UNCHANGED <<main_state, files>>

NextLog ==
    \E b \in -MaxCount..MaxCount, t \in 0..MaxCount : CallUpdateLog(b, t)

SpecLog == Init /\ [][NextLog]_vars

-----------------------------------------------------------------------------
(* Properties *)

DataRows == files[DefaultFile].rows

Entries(lf) == Cardinality({k \in 1..Len(lf.lines) : lf.lines[k].kind = "Execution Date"})

LastLine(lf) == lf.lines[Len(lf.lines)]

IsPrefix(p, q) == Len(p) <= Len(q) /\ SubSeq(q, 1, Len(p)) = p

\* C1: write_data persists exactly the existing rows followed by the incoming
\* rows, with every row equal to an earlier one removed (first occurrence and
\* relative order kept), whatever the existing dataset and the incoming records.
C1_PersistsDedupOfExistingThenIncoming ==
    call.op = "write_data" =>
        /\ ~call.raised
        /\ DataRows = DropDuplicates(call.before[DefaultFile].rows \o call.incoming)

HeaderOnceAtStart(lf) ==
    IF lf.exists
    THEN /\ Len(lf.lines) >= 3
         /\ lf.lines[1] = HeaderTitle
         /\ lf.lines[2] = HeaderRule
         /\ \A k \in 3..Len(lf.lines) : lf.lines[k].kind = "Execution Date"
    ELSE lf.lines = <<>>

\* C4: the log is append-only over any sequence of update_transaction_log
\* calls: the content before a call is a prefix of the content after it, every
\* call adds exactly one entry line, and the two header lines are written once,
\* at the start of the file, by the call that finds the file absent.
C4_LogAppendOnly ==
    [][ ncalls' = ncalls + 1 =>
          /\ IsPrefix(logFile.lines, logFile'.lines)
          /\ Entries(logFile') = Entries(logFile) + 1
          /\ Len(logFile'.lines) = Len(logFile.lines) + (IF logFile.exists THEN 1 ELSE 3)
          /\ LastLine(logFile') = Entry(call'.ret[1], call'.ret[2])
          /\ HeaderOnceAtStart(logFile')
      ]_vars

C4_Witness ==
    /\ ~logFile0.exists
    /\ ncalls = 3
    /\ Len(logFile.lines) = 5
    /\ HeaderOnceAtStart(logFile)

AllDistinct(rows) == \A j, k \in 1..Len(rows) : rows[j] = rows[k] => j = k

C6_SelfMergeKeepsRowCount ==
    call.op = "merge_self" =>
        Len(DataRows) = Len(call.before[DefaultFile].rows)

\* C7: for every file_name, write_data writes the merged result to the path it
\* loaded the existing dataset from, and changes no other dataset file.
C7_WritesBackToLoadedPath ==
    (call.op = "write_data" /\ ~call.raised) =>
        /\ call.read_from = call.written_to
        /\ \A f \in FileNames \ {call.file_name} : files[f] = call.before[f]

\* C8: the first value write_data returns is the number of duplicate posts the
\* merge removed: len(existing) + len(incoming) - len(merged).
C8_FirstReturnCountsDuplicatesRemoved ==
    (call.op = "write_data" /\ ~call.raised) =>
        call.ret[1] = Len(call.before[DefaultFile].rows) + Len(call.incoming)
                        - Len(files[call.file_name].rows)

StepOrder ==
    {<<"idle", "creds">>, <<"done", "creds">>, <<"crashed", "creds">>,
     <<"creds", "token">>, <<"token", "verify">>, <<"verify", "prompt">>,
     <<"verify", "done">>, <<"prompt", "fetch">>, <<"fetch", "write">>,
     <<"write", "log">>, <<"log", "done">>,
     <<"token", "crashed">>, <<"verify", "crashed">>, <<"fetch", "crashed">>,
     <<"write", "crashed">>, <<"log", "crashed">>}

\* C9: the steps of a run occur in the order credentials, token exchange,
\* identity check, prompt, all NUM_BATCHES fetches, dataset write, log append;
\* the dataset is written at most once and only after the last fetch, the log
\* is appended at most once and only after the dataset write, and a failure
\* between the two leaves the dataset written and the log without an entry.
C9_StepsInOrder ==
    [][ /\ pc' # pc => <<pc, pc'>> \in StepOrder
        /\ credsFile' # credsFile => pc = "creds"
        /\ scrapeCalls' # scrapeCalls => (pc = "fetch" \/ pc' = "creds")
        /\ (files' # files \/ dataWrites' > dataWrites) =>
              /\ pc = "write"
              /\ scrapeCalls = NUM_BATCHES
              /\ dataWrites = 0
              /\ logWrites = 0
        /\ (logFile' # logFile \/ logWrites' > logWrites) =>
              /\ pc = "log"
              /\ dataWrites = 1
              /\ logWrites = 0
        /\ logWrites' = 1 => dataWrites' = 1
        /\ outcome' = "log not written" =>
              /\ dataWrites' = 1
              /\ logWrites' = 0
              /\ logFile' = logFile0'
      ]_vars

C9_Witness ==
    /\ outcome = "log not written"
    /\ pc = "crashed"
    /\ dataWrites = 1
    /\ files # files0
    /\ logFile = logFile0

\* C10: when the token exchange or any scrape_page call of a run fails, the run
\* ends with the dataset files and the log exactly as they were before it;
\* the pages fetched earlier in the run are not persisted.
C10_FailedFetchPersistsNothing ==
    outcome \in {"token exchange failed", "scrape_page failed"} =>
        /\ pc = "crashed"
        /\ files = files0
        /\ logFile = logFile0
        /\ dataWrites = 0
        /\ logWrites = 0

C10_Witness ==
    /\ outcome = "scrape_page failed"
    /\ scrapeCalls = NUM_BATCHES
    /\ Concat(batches) = <<P1>>
    /\ files[DefaultFile].exists

====
